---- MODULE Spec2Model ----
(***************************************************************************)
(* A model of life.py, an interactive Conway's Game of Life: the grid      *)
(* helpers (create_board, count_live_neighbors, next_board_state,          *)
(* random_fill_board, save_pattern, load_pattern, count_total_live_cells)  *)
(* and the event loop of main that owns the board, the generation counter  *)
(* and the pause flag.                                                     *)
(*                                                                         *)
(* A board is a Python list of rows, each a list of ints: here a sequence  *)
(* of sequences.  Python indexes from 0 and TLA+ from 1, so board[r][c] of *)
(* the source is board[r + 1][c + 1] here (Cell).  Text is a sequence of   *)
(* one-character strings, a file a sequence of lines.                      *)
(***************************************************************************)
EXTENDS Integers, Sequences, FiniteSets, TLC

VARIABLES
    board,       \* main: the current board
    generation,  \* main: the generation counter
    paused,      \* main: the pause flag
    running,     \* main: the loop flag
    pc,          \* main: "events" inside the loop, "exited" after it, "crashed" on an uncaught exception
    files,       \* the pattern files this run's save commands have written: path -> text
    op,          \* library harness: the function applied last ("none" before any)
    arg,         \* library harness: the inputs of the call under study
    ret          \* library harness: what the call left behind (result, raised, the argument afterwards)

vars == <<board, generation, paused, running, pc, files, op, arg, ret>>

ctl == <<board, generation, paused, running, pc, files>>

lib == <<op, arg, ret>>

-----------------------------------------------------------------------------
(* Bounds of the model *)

\* args.width and args.height of the controller's run
BoardWidth == 2

BoardHeight == 2

\* the generation counter is capped in the guards of the stepping actions
MaxGen == 2

\* how many distinct pattern files a run may create (rewriting one is always allowed)
MaxFiles == 1

\* random.random() and density are floats; here they are the integers
\* 0 .. Scale - 1 and d standing for d / Scale
Scale == 10

\* the grids the grid helpers are applied to have up to MaxRows rows and
\* MaxCols columns
MaxRows == 3

MaxCols == 3

\* the codec is also applied to one-row and one-column grids of WideCols
\* cells, whose last indices have two digits
WideCols == 11

\* a pattern file read on its own holds up to MaxLines lines
MaxLines == 3

\* create_board on its own takes width and height from -MaxDim .. MaxDim
MaxDim == 3

\* random_fill_board on its own fills grids of up to MaxCells cells
MaxCells == 4

\* a glider or a blinker is run on grids of up to MaxPatternDim rows and columns
MaxPatternDim == 7

\* and next_board_state is applied to it up to MaxSteps times
MaxSteps == 4

\* next_board_state is called twice on grids of up to MaxTwiceCells cells
MaxTwiceCells == 9

-----------------------------------------------------------------------------
(* Program constants *)

CELL_SIZE == 15

HUD_HEIGHT == 60

-----------------------------------------------------------------------------
(* Text *)

Digit(d) == <<"0", "1", "2", "3", "4", "5", "6", "7", "8", "9">>[d + 1]

\* str(n) of a non-negative int, as an f-string formats {n}
RECURSIVE NatToStr(_)
NatToStr(n) == IF n < 10 THEN <<Digit(n)>> ELSE NatToStr(n \div 10) \o <<Digit(n % 10)>>

\* str(n) of an int
IntToStr(n) == IF n < 0 THEN <<"-">> \o NatToStr(-n) ELSE NatToStr(n)

Whitespace == {" ", "\t", "\n"}

DigitChars == {Digit(d) : d \in 0..9}

DigitValue(ch) == CHOOSE d \in 0..9 : Digit(d) = ch

\* str.strip()
RECURSIVE LStrip(_)
LStrip(s) == IF s # <<>> /\ Head(s) \in Whitespace THEN LStrip(Tail(s)) ELSE s

RECURSIVE RStrip(_)
RStrip(s) ==
    IF s # <<>> /\ s[Len(s)] \in Whitespace THEN RStrip(SubSeq(s, 1, Len(s) - 1)) ELSE s

Strip(s) == RStrip(LStrip(s))

\* str.split(sep): the pieces between the separators, at least one
RECURSIVE SplitFrom(_, _, _)
SplitFrom(s, sep, cur) ==
    IF s = <<>> THEN <<cur>>
    ELSE IF Head(s) = sep
         THEN <<cur>> \o SplitFrom(Tail(s), sep, <<>>)
         ELSE SplitFrom(Tail(s), sep, Append(cur, Head(s)))

Split(s, sep) == SplitFrom(s, sep, <<>>)

\* for line in f: the lines of a text, each with the "\n" that ends it
RECURSIVE LinesFrom(_, _)
LinesFrom(text, cur) ==
    IF text = <<>> THEN (IF cur = <<>> THEN <<>> ELSE <<cur>>)
    ELSE IF Head(text) = "\n"
         THEN <<Append(cur, "\n")>> \o LinesFrom(Tail(text), <<>>)
         ELSE LinesFrom(Tail(text), Append(cur, Head(text)))

FileLines(text) == LinesFrom(text, <<>>)

\* whether int(s) returns (otherwise it raises ValueError): blanks around, a
\* sign, then digits, single underscores allowed between digits
IsIntLiteral(s) ==
    LET t == Strip(s)
        body == IF t # <<>> /\ Head(t) \in {"+", "-"} THEN Tail(t) ELSE t
    IN /\ body # <<>>
       /\ body[1] \in DigitChars
       /\ body[Len(body)] \in DigitChars
       /\ \A i \in 1..Len(body) : body[i] \in DigitChars \cup {"_"}
       /\ \A i \in 1..(Len(body) - 1) : ~(body[i] = "_" /\ body[i + 1] = "_")

RECURSIVE DigitsValue(_, _)
DigitsValue(s, acc) ==
    IF s = <<>> THEN acc
    ELSE IF Head(s) = "_"
         THEN DigitsValue(Tail(s), acc)
         ELSE DigitsValue(Tail(s), acc * 10 + DigitValue(Head(s)))

\* int(s) where it returns
ParseInt(s) ==
    LET t == Strip(s)
    IN IF Head(t) = "-" THEN 0 - DigitsValue(Tail(t), 0)
       ELSE IF Head(t) = "+" THEN DigitsValue(Tail(t), 0)
       ELSE DigitsValue(t, 0)

-----------------------------------------------------------------------------
(* Grid helpers *)

\* [[0 for _ in range(width)] for _ in range(height)]: range(n) is empty for n <= 0
create_board(width, height) == [r \in 1..height |-> [c \in 1..width |-> 0]]

\* len(board), len(board[0])
Rows(b) == Len(b)

Cols(b) == Len(b[1])

\* board[r][c] with the source's 0-based indices
Cell(b, r, c) == b[r + 1][c + 1]

\* board[r][c] = v
SetCell(b, r, c, v) == [b EXCEPT ![r + 1][c + 1] = v]

\* the (i, j) offsets in the order of the two nested range(-1, 2) loops
Offsets == <<<<-1, -1>>, <<-1, 0>>, <<-1, 1>>, <<0, -1>>, <<0, 0>>, <<0, 1>>, <<1, -1>>, <<1, 0>>, <<1, 1>>>>

\* NeighborLoop without the continue that skips the cell itself
RECURSIVE NeighborLoopWithSelf(_, _, _, _, _)
NeighborLoopWithSelf(b, r, c, k, live_neighbors) ==
    IF k > Len(Offsets) THEN live_neighbors
    ELSE LET nr == r + Offsets[k][1]
             nc == c + Offsets[k][2]
         IN IF 0 <= nr /\ nr < Rows(b) /\ 0 <= nc /\ nc < Cols(b) /\ Cell(b, nr, nc) = 1
            THEN NeighborLoopWithSelf(b, r, c, k + 1, live_neighbors + 1)
            ELSE NeighborLoopWithSelf(b, r, c, k + 1, live_neighbors)

RECURSIVE NeighborLoop(_, _, _, _, _)
NeighborLoop(b, r, c, k, live_neighbors) ==
    IF k > Len(Offsets) THEN live_neighbors
    ELSE LET i == Offsets[k][1]
             j == Offsets[k][2]
             nr == r + i
             nc == c + j
         IN IF i = 0 /\ j = 0
            THEN NeighborLoop(b, r, c, k + 1, live_neighbors)
            ELSE IF 0 <= nr /\ nr < Rows(b) /\ 0 <= nc /\ nc < Cols(b) /\ Cell(b, nr, nc) = 1
                 THEN NeighborLoop(b, r, c, k + 1, live_neighbors + 1)
                 ELSE NeighborLoop(b, r, c, k + 1, live_neighbors)

\* count_live_neighbors without the tests 0 <= nr and 0 <= nc: the index -1
\* reads the last row or column of the list
RECURSIVE NeighborLoopNoLowerTest(_, _, _, _, _)
NeighborLoopNoLowerTest(b, r, c, k, live_neighbors) ==
    IF k > Len(Offsets) THEN live_neighbors
    ELSE LET i == Offsets[k][1]
             j == Offsets[k][2]
             nr == r + i
             nc == c + j
         IN IF i = 0 /\ j = 0
            THEN NeighborLoopNoLowerTest(b, r, c, k + 1, live_neighbors)
            ELSE IF nr < Rows(b) /\ nc < Cols(b) /\ Cell(b, nr % Rows(b), nc % Cols(b)) = 1
                 THEN NeighborLoopNoLowerTest(b, r, c, k + 1, live_neighbors + 1)
                 ELSE NeighborLoopNoLowerTest(b, r, c, k + 1, live_neighbors)

count_live_neighbors_no_lower_test(b, r, c) == NeighborLoopNoLowerTest(b, r, c, 1, 0)

count_live_neighbors(b, r, c) == NeighborLoop(b, r, c, 1, 0)

\* NextCell with the crowding test lost: a live cell dies only of loneliness
NextCellNoCrowding(old, new, r, c) ==
    LET live_neighbors == count_live_neighbors(old, r, c)
        cell_state == Cell(old, r, c)
    IN [old |-> old,
        new |-> IF cell_state = 1
                THEN IF live_neighbors < 2
                     THEN SetCell(new, r, c, 0)
                     ELSE SetCell(new, r, c, 1)
                ELSE IF live_neighbors = 3
                     THEN SetCell(new, r, c, 1)
                     ELSE new]

\* NextCell with a dead cell born of 2 live neighbours as well as of 3
NextCellBirthOnTwo(old, new, r, c) ==
    LET live_neighbors == count_live_neighbors(old, r, c)
        cell_state == Cell(old, r, c)
    IN [old |-> old,
        new |-> IF cell_state = 1
                THEN IF live_neighbors < 2 \/ live_neighbors > 3
                     THEN SetCell(new, r, c, 0)
                     ELSE SetCell(new, r, c, 1)
                ELSE IF live_neighbors >= 2 /\ live_neighbors <= 3
                     THEN SetCell(new, r, c, 1)
                     ELSE new]

\* NextCell writing the cell's new value into the board it reads as well, so
\* that the cells visited later count neighbours already updated
NextCellInPlace(old, new, r, c) ==
    LET live_neighbors == count_live_neighbors(old, r, c)
        cell_state == Cell(old, r, c)
        value == IF cell_state = 1
                 THEN IF live_neighbors < 2 \/ live_neighbors > 3 THEN 0 ELSE 1
                 ELSE IF live_neighbors = 3 THEN 1 ELSE 0
    IN [old |-> SetCell(old, r, c, value), new |-> SetCell(new, r, c, value)]

\* One pass of the body of the r, c loops of next_board_state: it reads old, the
\* board it was given, and writes new, the board it builds.
NextCell(old, new, r, c) ==
    LET live_neighbors == count_live_neighbors(old, r, c)
        cell_state == Cell(old, r, c)
    IN [old |-> old,
        new |-> IF cell_state = 1
                THEN IF live_neighbors < 2 \/ live_neighbors > 3
                     THEN SetCell(new, r, c, 0)
                     ELSE SetCell(new, r, c, 1)
                ELSE IF live_neighbors = 3
                     THEN SetCell(new, r, c, 1)
                     ELSE new]

\* The r, c loops, cell k = r * cols + c at a time, on the pair of boards.
RECURSIVE NextLoop(_, _)
NextLoop(st, k) ==
    LET rows == Rows(st.old)
        cols == Cols(st.old)
    IN IF k >= rows * cols THEN st
       ELSE NextLoop(NextCell(st.old, st.new, k \div cols, k % cols), k + 1)

\* NextRun updating the board it was given in place, and returning it
RECURSIVE InPlaceLoop(_, _)
InPlaceLoop(b, k) ==
    IF k >= Rows(b) * Cols(b) THEN b
    ELSE LET r == k \div Cols(b)
             c == k % Cols(b)
             live_neighbors == count_live_neighbors(b, r, c)
         IN InPlaceLoop(SetCell(b, r, c,
                                IF Cell(b, r, c) = 1
                                THEN IF live_neighbors < 2 \/ live_neighbors > 3 THEN 0 ELSE 1
                                ELSE IF live_neighbors = 3 THEN 1 ELSE 0),
                        k + 1)

NextRunInPlace(b) ==
    LET done == InPlaceLoop(b, 0)
    IN [old |-> done, new |-> done, returned |-> "old"]

\* A call of next_board_state: the argument as the call leaves it (old) and the
\* board it returns (new).
NextRun(b) ==
    LET st == NextLoop([old |-> b, new |-> create_board(Cols(b), Rows(b))], 0)
    IN [old |-> st.old, new |-> st.new, returned |-> "new"]      \* return new_board

\* the value of next_board_state(board)
next_board_state(b) == LET run == NextRun(b) IN IF run.returned = "new" THEN run.new ELSE run.old

RECURSIVE SumSeq(_)
SumSeq(s) == IF s = <<>> THEN 0 ELSE (IF Head(s) = 1 THEN 1 ELSE 0) + SumSeq(Tail(s))

RECURSIVE count_total_live_cells(_)
count_total_live_cells(b) ==
    IF b = <<>> THEN 0 ELSE SumSeq(Head(b)) + count_total_live_cells(Tail(b))

\* random_fill_board comparing with <= where the source has <
random_fill_board_le(b, density, draws) ==
    [r \in 1..Rows(b) |->
        [c \in 1..Cols(b) |->
            IF draws[(r - 1) * Cols(b) + c] <= density THEN 1 ELSE 0]]

\* random_fill_board(board, density): every cell is assigned once, from the
\* draw of its own turn in the r, c loops; draws[k + 1] is what the k-th call
\* of random.random() returned.  The board is changed in place: the result is
\* the argument after the call.
random_fill_board(b, density, draws) ==
    [r \in 1..Rows(b) |->
        [c \in 1..Cols(b) |->
            IF draws[(r - 1) * Cols(b) + c] < density THEN 1 ELSE 0]]

\* density=0.2, the default
DefaultDensity == Scale \div 5

\* the values of random.random(), which lie in [0, 1): the least and the greatest
ExtremeDraws == {0, Scale - 1}

-----------------------------------------------------------------------------
(* Pattern files *)

\* f.write(f"# Pattern: Custom saved pattern\n")
Header ==
    <<"#", " ", "P", "a", "t", "t", "e", "r", "n", ":", " ", "C", "u", "s", "t", "o", "m", " ",
      "s", "a", "v", "e", "d", " ", "p", "a", "t", "t", "e", "r", "n", "\n">>

\* SaveLoop writing row,col where the format is col,row
RECURSIVE SaveLoopRowFirst(_, _, _)
SaveLoopRowFirst(b, k, text) ==
    LET rows == Rows(b)
        cols == Cols(b)
        r == k \div cols
        c == k % cols
    IN IF k >= rows * cols THEN text
       ELSE SaveLoopRowFirst(b, k + 1,
                             IF Cell(b, r, c) = 1
                             THEN text \o IntToStr(r) \o <<",">> \o IntToStr(c) \o <<"\n">>
                             ELSE text)

\* SaveLoop scanning column by column: c outside, r inside
RECURSIVE SaveLoopColumnMajor(_, _, _)
SaveLoopColumnMajor(b, k, text) ==
    LET rows == Rows(b)
        cols == Cols(b)
        c == k \div rows
        r == k % rows
    IN IF k >= rows * cols THEN text
       ELSE SaveLoopColumnMajor(b, k + 1,
                                IF Cell(b, r, c) = 1
                                THEN text \o IntToStr(c) \o <<",">> \o IntToStr(r) \o <<"\n">>
                                ELSE text)

\* the r, c loops of save_pattern, cell k at a time: f.write(f"{c},{r}\n")
RECURSIVE SaveLoop(_, _, _)
SaveLoop(b, k, text) ==
    LET rows == Rows(b)
        cols == Cols(b)
        r == k \div cols
        c == k % cols
    IN IF k >= rows * cols THEN text
       ELSE SaveLoop(b, k + 1,
                     IF Cell(b, r, c) = 1
                     THEN text \o IntToStr(c) \o <<",">> \o IntToStr(r) \o <<"\n">>
                     ELSE text)

\* save_pattern(board, filename): writable says whether os.makedirs and open
\* succeed; when they do not, the OSError leaves the function
save_pattern(b, writable) ==
    IF writable
    THEN [exc |-> "none", text |-> SaveLoop(b, 0, Header)]
    ELSE [exc |-> "OSError", text |-> <<>>]

\* a file that is not there, and one holding text
NoFile == [exists |-> FALSE, text |-> <<>>]

FileOf(text) == [exists |-> TRUE, text |-> text]

\* LoadLine with the try around the whole loop instead of around one line: the
\* first line that does not parse is warned about and ends the loading
LoadLineNoTry(st, raw, board_width, board_height) ==
    LET line == Strip(raw)
    IN IF st.warnings # <<>> THEN st
       ELSE IF line = <<>> \/ Head(line) = "#" THEN st
       ELSE LET parts == Split(line, ",")
            IN IF Len(parts) = 2 /\ IsIntLiteral(parts[1]) /\ IsIntLiteral(parts[2])
               THEN LET x == ParseInt(parts[1])
                        y == ParseInt(parts[2])
                    IN IF 0 <= y /\ y < board_height /\ 0 <= x /\ x < board_width
                       THEN [st EXCEPT !.new_board = SetCell(@, y, x, 1)]
                       ELSE st
               ELSE [st EXCEPT !.warnings = Append(@, line)]

\* The body of the loop over the lines of load_pattern, on st = the board
\* being filled and the lines warned about.
LoadLine(st, raw, board_width, board_height) ==
    LET line == Strip(raw)
    IN IF line = <<>> \/ Head(line) = "#" THEN st
       ELSE LET parts == Split(line, ",")
            IN IF Len(parts) = 2 /\ IsIntLiteral(parts[1]) /\ IsIntLiteral(parts[2])
               THEN LET x == ParseInt(parts[1])
                        y == ParseInt(parts[2])
                    IN IF 0 <= y /\ y < board_height /\ 0 <= x /\ x < board_width
                       THEN [st EXCEPT !.new_board = SetCell(@, y, x, 1)]
                       ELSE st
               ELSE [st EXCEPT !.warnings = Append(@, line)]

RECURSIVE LoadLoop(_, _, _, _)
LoadLoop(st, lines, board_width, board_height) ==
    IF lines = <<>> THEN st
    ELSE LoadLoop(LoadLine(st, Head(lines), board_width, board_height), Tail(lines),
                  board_width, board_height)

\* load_pattern without the except FileNotFoundError clause
load_pattern_no_except(file, board_width, board_height) ==
    LET new_board == create_board(board_width, board_height)
    IN IF file.exists
       THEN LET st == LoadLoop([new_board |-> new_board, warnings |-> <<>>],
                               FileLines(file.text), board_width, board_height)
            IN [exc |-> "none", board |-> st.new_board, warnings |-> st.warnings,
                found |-> TRUE]
       ELSE [exc |-> "FileNotFoundError", board |-> <<>>, warnings |-> <<>>, found |-> FALSE]

\* load_pattern(filename, board_width, board_height): what it raises, the board
\* it returns, the lines it warned about, and whether it found the file
load_pattern(file, board_width, board_height) ==
    LET new_board == create_board(board_width, board_height)
    IN IF file.exists
       THEN LET st == LoadLoop([new_board |-> new_board, warnings |-> <<>>],
                               FileLines(file.text), board_width, board_height)
            IN [exc |-> "none", board |-> st.new_board, warnings |-> st.warnings,
                found |-> TRUE]
       ELSE [exc |-> "none", board |-> create_board(board_width, board_height),
             warnings |-> <<>>, found |-> FALSE]

-----------------------------------------------------------------------------
(* The controller: main *)

\* f"patterns/gen_{generation}_cells_{count_total_live_cells(board)}.txt"
SavePath(g, n) ==
    <<"p", "a", "t", "t", "e", "r", "n", "s", "/", "g", "e", "n", "_">> \o IntToStr(g)
        \o <<"_", "c", "e", "l", "l", "s", "_">> \o IntToStr(n) \o <<".", "t", "x", "t">>

\* main up to the while loop, with args.width and args.height as given
InitCtl ==
    /\ board = create_board(BoardWidth, BoardHeight)
    /\ running = TRUE
    /\ paused = TRUE
    /\ generation = 0
    /\ pc = "events"
    /\ files = [p \in {} |-> <<>>]

Init ==
    /\ InitCtl
    /\ op = "none"
    /\ arg = <<>>
    /\ ret = <<>>

\* K_SPACE
KeySpace ==
    /\ pc = "events"
    /\ paused' = ~paused
    /\ UNCHANGED <<board, generation, running, pc, files, lib>>

\* KeyN without the test of paused
KeyNAnyTime ==
    /\ pc = "events"
    /\ generation < MaxGen
    /\ generation' = generation + 1
    /\ board' = next_board_state(board)
    /\ UNCHANGED <<paused, running, pc, files, lib>>

\* K_n
KeyN ==
    /\ pc = "events"
    /\ paused => generation < MaxGen
    /\ IF paused
       THEN /\ generation' = generation + 1
            /\ board' = next_board_state(board)
       ELSE UNCHANGED <<board, generation>>
    /\ UNCHANGED <<paused, running, pc, files, lib>>

\* K_c
KeyC ==
    /\ pc = "events"
    /\ board' = create_board(BoardWidth, BoardHeight)
    /\ generation' = 0
    /\ paused' = TRUE
    /\ UNCHANGED <<running, pc, files, lib>>

\* KeyR without generation = 0
KeyRNoReset ==
    /\ pc = "events"
    /\ \E draws \in [1..(BoardWidth * BoardHeight) -> ExtremeDraws] :
           board' = random_fill_board(board, DefaultDensity, draws)
    /\ paused' = TRUE
    /\ UNCHANGED <<generation, running, pc, files, lib>>

\* K_r: random_fill_board(board) with the default density
KeyR ==
    /\ pc = "events"
    /\ \E draws \in [1..(BoardWidth * BoardHeight) -> ExtremeDraws] :
           board' = random_fill_board(board, DefaultDensity, draws)
    /\ generation' = 0
    /\ paused' = TRUE
    /\ UNCHANGED <<running, pc, files, lib>>

\* K_s: save_pattern(board, f"patterns/gen_..."), which no try encloses.  The
\* disk holds at most MaxFiles pattern files; writable is whether the
\* directory and the file can be written.
KeySOn(writable) ==
    /\ pc = "events"
    /\ LET path == SavePath(generation, count_total_live_cells(board))
           saved == save_pattern(board, writable)
       IN /\ writable => (path \in DOMAIN files \/ Cardinality(DOMAIN files) < MaxFiles)
          /\ IF saved.exc = "none"
             THEN /\ files' = [p \in DOMAIN files \cup {path} |->
                                 IF p = path THEN saved.text ELSE files[p]]
                  /\ pc' = pc
             ELSE /\ files' = files
                  /\ pc' = "crashed"
    /\ UNCHANGED <<board, generation, paused, running, lib>>

KeyS == \E writable \in BOOLEAN : KeySOn(writable)

\* What patterns/glider.txt, which the program never writes, may hold when L is
\* pressed: nothing (no such file), the glider, a mix of lines.
GliderText ==
    <<"#", " ", "g", "\n", "1", ",", "0", "\n", "2", ",", "1", "\n", "0", ",", "2", "\n",
      "1", ",", "2", "\n", "2", ",", "2", "\n">>

MixedText == <<"0", ",", "0", "\n", "a", "b", "c", "\n", "\n", " ", "1", ",", "1", " ", "\n", "9", ",", "9">>

GliderFiles == {NoFile, FileOf(GliderText), FileOf(MixedText), FileOf(<<>>)}

\* K_l with patterns/glider.txt being file
KeyLOn(file) ==
    /\ pc = "events"
    /\ LET loaded == load_pattern(file, BoardWidth, BoardHeight)
       IN IF loaded.exc # "none"
          THEN /\ pc' = "crashed"
               /\ UNCHANGED <<board, generation, paused>>
          ELSE /\ pc' = pc
               /\ IF Len(loaded.board) > 0      \* if loaded_board:
                  THEN /\ board' = loaded.board
                       /\ generation' = 0
                       /\ paused' = TRUE
                  ELSE UNCHANGED <<board, generation, paused>>
    /\ UNCHANGED <<running, files, lib>>

KeyL == \E file \in GliderFiles : KeyLOn(file)

\* MouseDown without the test of row and col against the board: a negative
\* index counts from the end of the list, an index past the end raises
MouseDownNoBounds(button, mouse_x, mouse_y) ==
    /\ pc = "events"
    /\ LET col == mouse_x \div CELL_SIZE
           row == (mouse_y - HUD_HEIGHT) \div CELL_SIZE
       IN IF button = 1 /\ mouse_y > HUD_HEIGHT
          THEN IF /\ 0 - BoardHeight <= row /\ row < BoardHeight
                  /\ 0 - BoardWidth <= col /\ col < BoardWidth
               THEN /\ board' = SetCell(board, row % BoardHeight, col % BoardWidth,
                                        1 - Cell(board, row % BoardHeight, col % BoardWidth))
                    /\ paused' = TRUE
                    /\ pc' = pc
               ELSE /\ pc' = "crashed"
                    /\ UNCHANGED <<board, paused>>
          ELSE UNCHANGED <<board, paused, pc>>
    /\ UNCHANGED <<generation, running, files, lib>>

\* MouseDown counting the clicks on a cell up instead of flipping it
MouseDownIncrement(button, mouse_x, mouse_y) ==
    /\ pc = "events"
    /\ UNCHANGED <<generation, running, pc, files, lib>>
    /\ LET col == mouse_x \div CELL_SIZE
           row == (mouse_y - HUD_HEIGHT) \div CELL_SIZE
       IN IF /\ button = 1
             /\ mouse_y > HUD_HEIGHT
             /\ 0 <= row /\ row < BoardHeight /\ 0 <= col /\ col < BoardWidth
          THEN /\ paused' = TRUE
               /\ board' = SetCell(board, row, col, 1 + Cell(board, row, col))
          ELSE UNCHANGED <<board, paused>>

\* MOUSEBUTTONDOWN with event.button = button and event.pos = (mouse_x, mouse_y)
MouseDown(button, mouse_x, mouse_y) ==
    /\ pc = "events"
    /\ UNCHANGED <<generation, running, pc, files, lib>>
    /\ LET col == mouse_x \div CELL_SIZE
           row == (mouse_y - HUD_HEIGHT) \div CELL_SIZE
       IN IF /\ button = 1
             /\ mouse_y > HUD_HEIGHT
             /\ 0 <= row /\ row < BoardHeight /\ 0 <= col /\ col < BoardWidth
          THEN /\ paused' = TRUE
               /\ board' = SetCell(board, row, col, 1 - Cell(board, row, col))
          ELSE UNCHANGED <<board, paused>>

\* The clicks tried: the middle of every cell, the top left pixel of the
\* board, pixels left of, right of, above and below it, and a right click.
CellMiddles ==
    {<<1, c * CELL_SIZE + CELL_SIZE \div 2, HUD_HEIGHT + r * CELL_SIZE + CELL_SIZE \div 2>> :
        r \in 0..(BoardHeight - 1), c \in 0..(BoardWidth - 1)}

Clicks ==
    CellMiddles \cup
    {<<1, 0, HUD_HEIGHT>>,
     <<1, 0 - 1, HUD_HEIGHT + 1>>,
     <<1, BoardWidth * CELL_SIZE, HUD_HEIGHT + 1>>,
     <<1, 0, HUD_HEIGHT - 1>>,
     <<1, 0, HUD_HEIGHT + BoardHeight * CELL_SIZE>>,
     <<3, CELL_SIZE \div 2, HUD_HEIGHT + CELL_SIZE \div 2>>}

Mouse == \E click \in Clicks : MouseDown(click[1], click[2], click[3])

\* K_q
KeyQ ==
    /\ pc = "events"
    /\ running' = FALSE
    /\ UNCHANGED <<board, generation, paused, pc, files, lib>>

\* pygame.QUIT
QuitEvent ==
    /\ pc = "events"
    /\ running' = FALSE
    /\ UNCHANGED <<board, generation, paused, pc, files, lib>>

\* The end of a pass of the while loop: the tick when not paused, the drawing
\* (which changes nothing here), and the test of the loop flag.
EndFrame ==
    /\ pc = "events"
    /\ ~paused => generation < MaxGen
    /\ IF ~paused
       THEN /\ generation' = generation + 1
            /\ board' = next_board_state(board)
       ELSE UNCHANGED <<board, generation>>
    /\ pc' = IF running THEN "events" ELSE "exited"
    /\ UNCHANGED <<paused, running, files, lib>>

Next ==
    \/ KeySpace
    \/ KeyN
    \/ KeyC
    \/ KeyR
    \/ KeyS
    \/ KeyL
    \/ Mouse
    \/ KeyQ
    \/ QuitEvent
    \/ EndFrame

\* The controller under every command.
Spec == Init /\ [][Next]_vars

\* The controller while S is never pressed: no file is written, and the
\* board, the counter and the flags take the same values as under Spec.
NextPlay ==
    \/ KeySpace
    \/ KeyN
    \/ KeyC
    \/ KeyR
    \/ KeyL
    \/ Mouse
    \/ KeyQ
    \/ QuitEvent
    \/ EndFrame

SpecPlay == Init /\ [][NextPlay]_vars

-----------------------------------------------------------------------------
(* The grid helpers applied on their own: arg is drawn at the start, one     *)
(* call is made, and ret holds what it left.  The controller stands still.   *)

Grids(maxRows, maxCols) ==
    UNION {[1..h -> [1..w -> {0, 1}]] : h \in 1..maxRows, w \in 1..maxCols}

\* the cells of a grid, (row, column) from 0, and those alive
CellsOf(b) == (0..(Rows(b) - 1)) \X (0..(Cols(b) - 1))

LiveCells(b) == {p \in CellsOf(b) : Cell(b, p[1], p[2]) = 1}

SameShape(a, b) == Len(a) = Len(b) /\ \A r \in 1..Len(a) : Len(a[r]) = Len(b[r])

\* Conway's rule B3/S23 stated cell by cell on the set of live cells, with
\* nothing alive outside the grid
Adjacent(p, q) == p # q /\ p[1] - q[1] \in -1..1 /\ p[2] - q[2] \in -1..1

LiveAround(b, p) == Cardinality({q \in LiveCells(b) : Adjacent(p, q)})

Conway(b, p) ==
    IF Cell(b, p[1], p[2]) = 1
    THEN IF LiveAround(b, p) \in {2, 3} THEN 1 ELSE 0
    ELSE IF LiveAround(b, p) = 3 THEN 1 ELSE 0

InitRule ==
    /\ InitCtl
    /\ op = "none"
    /\ arg \in [board : Grids(MaxRows, MaxCols)]
    /\ ret = <<>>

\* new = next_board_state(board)
CallNext ==
    /\ op = "none"
    /\ op' = "next_board_state"
    /\ ret' = NextRun(arg.board)
    /\ UNCHANGED <<arg, ctl>>

SpecRule == InitRule /\ [][CallNext]_vars

\* C1: in the grid next_board_state returns, a cell is 1 exactly when it was
\* alive with 2 or 3 live neighbours or dead with exactly 3, counting the live
\* cells among its up to 8 adjacent cells inside the grid, and 0 otherwise.
C1_RuleB3S23 ==
    op = "next_board_state" =>
        /\ SameShape(ret.new, arg.board)
        /\ \A p \in CellsOf(arg.board) : Cell(ret.new, p[1], p[2]) = Conway(arg.board, p)

\* a call in which a live cell survived, a live cell died of crowding, a live
\* cell died alone and a dead cell was born
C1_Witness ==
    /\ op = "next_board_state"
    /\ \E p, q, u, v \in CellsOf(arg.board) :
           /\ Cell(arg.board, p[1], p[2]) = 1 /\ Cell(ret.new, p[1], p[2]) = 1
           /\ Cell(arg.board, q[1], q[2]) = 1 /\ LiveAround(arg.board, q) > 3
           /\ Cell(ret.new, q[1], q[2]) = 0
           /\ Cell(arg.board, u[1], u[2]) = 1 /\ LiveAround(arg.board, u) < 2
           /\ Cell(ret.new, u[1], u[2]) = 0
           /\ Cell(arg.board, v[1], v[2]) = 0 /\ Cell(ret.new, v[1], v[2]) = 1

\* C2: next_board_state leaves every cell of its argument as it was, and what
\* it returns is another grid than its argument, with as many rows and columns.
C2_InputUntouched ==
    op = "next_board_state" =>
        /\ ret.old = arg.board
        /\ ret.returned = "new"
        /\ SameShape(ret.new, arg.board)

\* a call whose result differs from its argument
C2_Witness ==
    /\ op = "next_board_state"
    /\ ret.returned = "new"
    /\ LiveCells(ret.new) # LiveCells(arg.board)
    /\ LiveCells(ret.new) # {}

\* C17: for every cell of every grid, count_live_neighbors is the number of
\* live cells of the grid, other than the cell, whose row and column are each
\* within 1 of the cell's: nothing beyond an edge and nothing from the opposite
\* edge is counted; and a live cell at corner (0, 0) with no live neighbour in
\* the grid is dead in the next generation.
C17_DeadBoundary ==
    op = "next_board_state" =>
        /\ \A p \in CellsOf(arg.board) :
               count_live_neighbors(arg.board, p[1], p[2])
                  = Cardinality({q \in CellsOf(arg.board) :
                                    /\ q # p
                                    /\ q[1] >= p[1] - 1 /\ q[1] <= p[1] + 1
                                    /\ q[2] >= p[2] - 1 /\ q[2] <= p[2] + 1
                                    /\ Cell(arg.board, q[1], q[2]) = 1})
        /\ (Cell(arg.board, 0, 0) = 1 /\ LiveAround(arg.board, <<0, 0>>) = 0) =>
               Cell(ret.new, 0, 0) = 0

\* a call on a grid whose corner (0, 0) is alive with no live neighbour while
\* the cells at the far ends of its row and column and the opposite corner
\* are alive: the corner died
C17_Witness ==
    /\ op = "next_board_state"
    /\ Rows(arg.board) >= 3 /\ Cols(arg.board) >= 3
    /\ Cell(arg.board, 0, 0) = 1
    /\ LiveAround(arg.board, <<0, 0>>) = 0
    /\ Cell(arg.board, 0, Cols(arg.board) - 1) = 1
    /\ Cell(arg.board, Rows(arg.board) - 1, 0) = 1
    /\ Cell(arg.board, Rows(arg.board) - 1, Cols(arg.board) - 1) = 1
    /\ count_live_neighbors(arg.board, 0, 0) = 0
    /\ Cell(ret.new, 0, 0) = 0

-----------------------------------------------------------------------------
(* next_board_state called twice on the same grid *)

\* second = next_board_state(board), on the grid the first call was given and
\* as that call left it
CallNextAgain ==
    /\ op = "next_board_state"
    /\ op' = "next_board_state again"
    /\ ret' = [first |-> ret, second |-> NextRun(ret.old)]
    /\ UNCHANGED <<arg, ctl>>

NextTwice ==
    \/ CallNext
    \/ CallNextAgain

\* the grids the two calls are made on
TwiceGrids == {b \in Grids(MaxRows, MaxCols) : Rows(b) * Cols(b) <= MaxTwiceCells}

InitTwice ==
    /\ InitCtl
    /\ op = "none"
    /\ arg \in [board : TwiceGrids]
    /\ ret = <<>>

SpecTwice == InitTwice /\ [][NextTwice]_vars

\* every cell's next value taken at once from the one grid b
SimultaneousUpdate(b) ==
    [r \in 1..Rows(b) |->
        [c \in 1..Cols(b) |->
            LET n == count_live_neighbors(b, r - 1, c - 1)
            IN IF b[r][c] = 1
               THEN IF n < 2 \/ n > 3 THEN 0 ELSE 1
               ELSE IF n = 3 THEN 1 ELSE 0]]

\* the body of the loops of next_board_state applied to the cells in the
\* order of the sequence cells
RECURSIVE VisitCells(_, _)
VisitCells(st, cells) ==
    IF cells = <<>> THEN st
    ELSE VisitCells(NextCell(st.old, st.new, Head(cells)[1], Head(cells)[2]), Tail(cells))

\* the cells of b from the last of the row-major scan to the first, and
\* column by column
ReverseScan(b) ==
    [k \in 1..(Rows(b) * Cols(b)) |->
        <<(Rows(b) * Cols(b) - k) \div Cols(b), (Rows(b) * Cols(b) - k) % Cols(b)>>]

ColumnScan(b) == [k \in 1..(Rows(b) * Cols(b)) |-> <<(k - 1) % Rows(b), (k - 1) \div Rows(b)>>]

\* C18: the grid next_board_state returns is the simultaneous update of its
\* argument, the same whatever the order in which the cells are visited, and
\* a second call on the same grid returns a grid equal to it cell for cell.
C18_SnapshotUpdate ==
    /\ op = "next_board_state" =>
          LET start == [old |-> arg.board, new |-> create_board(Cols(arg.board), Rows(arg.board))]
          IN /\ ret.new = SimultaneousUpdate(arg.board)
             /\ VisitCells(start, ReverseScan(arg.board)).new = ret.new
             /\ VisitCells(start, ColumnScan(arg.board)).new = ret.new
    /\ op = "next_board_state again" =>
          /\ ret.second.new = ret.first.new
          /\ ret.second.old = arg.board

\* two calls made on a grid that its next generation differs from, in a cell
\* visited early that is a neighbour of more than one cell visited later
C18_Witness ==
    /\ op = "next_board_state again"
    /\ Rows(arg.board) > 1 /\ Cols(arg.board) > 1
    /\ Cell(ret.first.new, 0, 0) # Cell(arg.board, 0, 0)
    /\ ret.second.new = ret.first.new
    /\ LiveCells(ret.second.new) # {}

-----------------------------------------------------------------------------
(* next_board_state applied again and again to a known pattern *)

\* the grid of h rows and w columns whose live cells are cells
Place(h, w, cells) == [r \in 1..h |-> [c \in 1..w |-> IF <<r - 1, c - 1>> \in cells THEN 1 ELSE 0]]

\* the glider heading down and right, in the 3 x 3 box whose top left cell is (r0, c0)
GliderCells(r0, c0) ==
    {<<r0, c0 + 1>>, <<r0 + 1, c0 + 2>>, <<r0 + 2, c0>>, <<r0 + 2, c0 + 1>>, <<r0 + 2, c0 + 2>>}

\* the horizontal blinker whose middle cell is (r, c)
BlinkerCells(r, c) == {<<r, c - 1>>, <<r, c>>, <<r, c + 1>>}

\* the cells of the outermost rows and columns
Boundary(b) ==
    {p \in CellsOf(b) : p[1] = 0 \/ p[1] = Rows(b) - 1 \/ p[2] = 0 \/ p[2] = Cols(b) - 1}

\* gliders with a dead ring between the 4 x 4 box they cross in 4 generations
\* and the edge of the grid
GliderRuns ==
    {[kind |-> "glider", row |-> r0, col |-> c0, cells |-> GliderCells(r0, c0),
      board |-> Place(h, w, GliderCells(r0, c0))] :
        <<h, w, r0, c0>> \in
            {q \in (1..MaxPatternDim) \X (1..MaxPatternDim) \X (1..MaxPatternDim) \X (1..MaxPatternDim) :
                q[3] + 3 <= q[1] - 2 /\ q[4] + 3 <= q[2] - 2}}

\* blinkers with the rows above and below them and the columns of their ends
\* inside the grid
BlinkerRuns ==
    {[kind |-> "blinker", row |-> r, col |-> c, cells |-> BlinkerCells(r, c),
      board |-> Place(h, w, BlinkerCells(r, c))] :
        <<h, w, r, c>> \in
            {q \in (1..MaxPatternDim) \X (1..MaxPatternDim) \X (1..MaxPatternDim) \X (1..MaxPatternDim) :
                q[3] + 1 <= q[1] - 1 /\ q[4] + 1 <= q[2] - 1}}

InitPattern ==
    /\ InitCtl
    /\ op = "none"
    /\ arg \in GliderRuns \cup BlinkerRuns
    /\ ret = [board |-> arg.board, steps |-> 0]

\* board = next_board_state(board), once more
StepPattern ==
    /\ ret.steps < MaxSteps
    /\ op' = "next_board_state"
    /\ ret' = [board |-> next_board_state(ret.board), steps |-> ret.steps + 1]
    /\ UNCHANGED <<arg, ctl>>

SpecPattern == InitPattern /\ [][StepPattern]_vars

\* C15: a glider placed so that no live cell touches the edge of the grid
\* during the steps is, after 4 applications of next_board_state, the same 5
\* cells moved by one row down and one column right, every other cell dead.
C15_GliderTranslates ==
    arg.kind = "glider" =>
        /\ ret.steps <= 4 => LiveCells(ret.board) \cap Boundary(ret.board) = {}
        /\ ret.steps = 4 =>
              /\ SameShape(ret.board, arg.board)
              /\ LiveCells(ret.board) = {<<p[1] + 1, p[2] + 1>> : p \in arg.cells}

\* a glider after its 4 generations, on a grid that is not square, none of
\* the cells it started on being all it lives on now
C15_Witness ==
    /\ arg.kind = "glider"
    /\ ret.steps = 4
    /\ Rows(arg.board) # Cols(arg.board)
    /\ Cardinality(LiveCells(ret.board)) = 5
    /\ LiveCells(ret.board) # arg.cells

\* C16: a horizontal blinker is after one application of next_board_state the
\* vertical blinker on the same middle cell, and after two the grid it started
\* from.
C16_BlinkerOscillates ==
    arg.kind = "blinker" =>
        /\ ret.steps = 1 =>
              /\ SameShape(ret.board, arg.board)
              /\ LiveCells(ret.board)
                    = {<<arg.row - 1, arg.col>>, <<arg.row, arg.col>>, <<arg.row + 1, arg.col>>}
        /\ ret.steps = 2 => ret.board = arg.board

\* a blinker back after two generations on a grid of which it touches all
\* four edges in turn
C16_Witness ==
    /\ arg.kind = "blinker"
    /\ ret.steps = 2
    /\ Rows(arg.board) = 3
    /\ Cols(arg.board) = 3
    /\ LiveCells(ret.board) = arg.cells

-----------------------------------------------------------------------------
(* save_pattern then load_pattern *)

CodecGrids ==
    Grids(MaxRows, MaxCols) \cup [1..1 -> [1..WideCols -> {0, 1}]]
        \cup [1..WideCols -> [1..1 -> {0, 1}]]

InitCodec ==
    /\ InitCtl
    /\ op = "none"
    /\ arg \in [board : CodecGrids]
    /\ ret = <<>>

\* save_pattern(board, path); loaded = load_pattern(path, len(board[0]), len(board))
CallSaveLoad ==
    /\ op = "none"
    /\ op' = "save_load"
    /\ LET saved == save_pattern(arg.board, TRUE)
       IN ret' = [saved |-> saved,
                  loaded |-> load_pattern(FileOf(saved.text), Cols(arg.board), Rows(arg.board))]
    /\ UNCHANGED <<arg, ctl>>

SpecCodec == InitCodec /\ [][CallSaveLoad]_vars

\* C3: a grid saved and loaded back with its own width and height comes back
\* with the same set of live cells, every other cell dead.
C3_RoundTrip ==
    op = "save_load" =>
        /\ ret.saved.exc = "none"
        /\ ret.loaded.exc = "none"
        /\ SameShape(ret.loaded.board, arg.board)
        /\ LiveCells(ret.loaded.board) = LiveCells(arg.board)
        /\ \A p \in CellsOf(arg.board) : Cell(ret.loaded.board, p[1], p[2]) \in {0, 1}

\* a round trip of a grid that is not square, with a live cell whose column
\* has two digits and a dead cell
C3_Witness ==
    /\ op = "save_load"
    /\ Rows(arg.board) # Cols(arg.board)
    /\ \E p \in LiveCells(ret.loaded.board) : p[2] >= 10
    /\ LiveCells(arg.board) # CellsOf(arg.board)

-----------------------------------------------------------------------------
(* The text save_pattern writes *)

\* the line of a live cell p = (row, col): col,row
FormatCell(p) == IntToStr(p[2]) \o <<",">> \o IntToStr(p[1]) \o <<"\n">>

\* p comes before q in the row-major scan
ScanBefore(p, q) == p[1] < q[1] \/ (p[1] = q[1] /\ p[2] < q[2])

\* C12: the text save_pattern writes is the header comment line followed by
\* one line col,row for each live cell and none for a dead cell, the cells in
\* ascending row and, within a row, ascending column; saving the grid again
\* gives the same text.
C12_SaveFormat ==
    op = "save_load" =>
        LET lines == FileLines(ret.saved.text)
            live == LiveCells(arg.board)
            cellAt == [i \in 2..Len(lines) |->
                          IF \E p \in live : lines[i] = FormatCell(p)
                          THEN CHOOSE p \in live : lines[i] = FormatCell(p)
                          ELSE <<0 - 1, 0 - 1>>]
        IN /\ Len(lines) = 1 + Cardinality(live)
           /\ lines[1] = Header
           /\ Head(lines[1]) = "#"
           /\ \A i \in 2..Len(lines) : cellAt[i] \in live
           /\ \A i \in 2..(Len(lines) - 1) : ScanBefore(cellAt[i], cellAt[i + 1])
           /\ save_pattern(arg.board, TRUE).text = ret.saved.text

\* a save of a grid with a dead cell and two live cells of which the one in
\* the later row stands in the earlier column
C12_Witness ==
    /\ op = "save_load"
    /\ LiveCells(arg.board) # CellsOf(arg.board)
    /\ \E p, q \in LiveCells(arg.board) : p[1] < q[1] /\ p[2] > q[2]
    /\ Len(FileLines(ret.saved.text)) > 2

-----------------------------------------------------------------------------
(* load_pattern on a file of any lines *)

Chars(n) == IntToStr(n)

\* A line as the file holds it, with what it is: a cell (x, y), a line to pass
\* over (blank or comment), or a line that is not two integers.
CellLine(text, x, y) == [text |-> text, kind |-> "cell", x |-> x, y |-> y]

SkipLine(text) == [text |-> text, kind |-> "skip", x |-> 0, y |-> 0]

BadLine(text) == [text |-> text, kind |-> "bad", x |-> 0, y |-> 0]

SampleLines ==
    {CellLine(<<"0", ",", "0">>, 0, 0),
     CellLine(<<" ", "0", ",", " ", "1", " ">>, 0, 1),
     CellLine(<<"+", "1", ",", "1", "\t">>, 1, 1),
     CellLine(Chars(MaxCols - 1) \o <<",">> \o Chars(MaxRows - 1), MaxCols - 1, MaxRows - 1),
     CellLine(Chars(MaxCols) \o <<",", "0">>, MaxCols, 0),
     CellLine(<<"0", ",">> \o Chars(MaxRows), 0, MaxRows),
     CellLine(<<"-", "1", ",", "0">>, 0 - 1, 0),
     CellLine(<<"9", "9", "9", "9", ",", "9", "9", "9", "9">>, 9999, 9999),
     SkipLine(<<>>),
     SkipLine(<<"#", " ", "0", ",", "0">>),
     SkipLine(<<" ", "#">>),
     BadLine(<<"a", "b", "c">>),
     BadLine(<<"1", ",", "1", ",", "1">>),
     BadLine(<<"1", ".", "0", ",", "1">>),
     BadLine(<<"1", ",">>)}

SeqsUpTo(S, n) == UNION {[1..k -> S] : k \in 0..n}

\* the text of the file: every line ended by "\n", the last one only if
\* final_newline
RECURSIVE TextOf(_, _)
TextOf(lines, final_newline) ==
    IF lines = <<>> THEN <<>>
    ELSE Head(lines).text
            \o (IF Len(lines) > 1 \/ final_newline THEN <<"\n">> ELSE <<>>)
            \o TextOf(Tail(lines), final_newline)

InitLoad ==
    /\ InitCtl
    /\ op = "none"
    /\ arg \in [lines : SeqsUpTo(SampleLines, MaxLines), final_newline : BOOLEAN,
                 width : {MaxCols}, height : {MaxRows}]
    /\ ret = <<>>

\* load_pattern(path, width, height) on a file holding the lines
CallLoad ==
    /\ op = "none"
    /\ op' = "load_pattern"
    /\ ret' = load_pattern(FileOf(TextOf(arg.lines, arg.final_newline)), arg.width, arg.height)
    /\ UNCHANGED <<arg, ctl>>

SpecLoad == InitLoad /\ [][CallLoad]_vars

InBounds(l, width, height) == 0 <= l.x /\ l.x < width /\ 0 <= l.y /\ l.y < height

LinesOfKind(lines, kind) == {i \in 1..Len(lines) : lines[i].kind = kind}

\* C4: whatever mix of comment, blank, well-formed, malformed and out-of-bounds
\* lines the file holds, load_pattern raises nothing and returns a grid of the
\* requested width and height whose live cells are exactly the cells (row y,
\* column x) of the well-formed lines within bounds, wherever those lines stand.
C4_LoadResilient ==
    op = "load_pattern" =>
        /\ ret.exc = "none"
        /\ ret.found
        /\ SameShape(ret.board, create_board(arg.width, arg.height))
        /\ LiveCells(ret.board)
              = {<<arg.lines[i].y, arg.lines[i].x>> :
                    i \in {j \in LinesOfKind(arg.lines, "cell") :
                              InBounds(arg.lines[j], arg.width, arg.height)}}
        /\ Len(ret.warnings) = Cardinality(LinesOfKind(arg.lines, "bad"))

\* a load in which a cell was set by a line that follows a malformed line and
\* a line with a negative coordinate
C4_Witness ==
    /\ op = "load_pattern"
    /\ \E i, j, k \in 1..Len(arg.lines) :
           /\ i < k /\ j < k
           /\ arg.lines[i].kind = "bad"
           /\ arg.lines[j].kind = "cell" /\ arg.lines[j].x < 0
           /\ arg.lines[k].kind = "cell"
           /\ InBounds(arg.lines[k], arg.width, arg.height)
           /\ LiveCells(ret.board) = {<<arg.lines[k].y, arg.lines[k].x>>}
    /\ ret.warnings # <<>>

-----------------------------------------------------------------------------
(* create_board and the start of main on any width and height *)

InitStart ==
    /\ board = <<>>
    /\ running = TRUE
    /\ paused = TRUE
    /\ generation = 0
    /\ pc = "start"
    /\ files = [p \in {} |-> <<>>]
    /\ op = "none"
    /\ arg \in [width : (0 - MaxDim)..MaxDim, height : (0 - MaxDim)..MaxDim]
    /\ ret = <<>>

\* create_board(width, height): it raises nothing
CallCreate ==
    /\ op = "none"
    /\ op' = "create_board"
    /\ ret' = [exc |-> "none", board |-> create_board(arg.width, arg.height)]
    /\ UNCHANGED <<arg, ctl>>

\* main(args) up to the while loop: argparse takes any int, no line tests
\* width or height; display_ok is whether pygame opened the window
Main ==
    /\ pc = "start"
    /\ \E display_ok \in BOOLEAN :
           IF display_ok
           THEN /\ board' = create_board(arg.width, arg.height)
                /\ running' = TRUE
                /\ paused' = TRUE
                /\ generation' = 0
                /\ pc' = "events"
           ELSE /\ pc' = "crashed"
                /\ UNCHANGED <<board, running, paused, generation>>
    /\ UNCHANGED <<files, lib>>

NextStart ==
    \/ CallCreate
    \/ Main

SpecStart == InitStart /\ [][NextStart]_vars

\* C8: create_board fails with InvalidDimension and makes no grid when width
\* <= 0 or height <= 0, and main does not reach its loop with such a width or
\* height.
C8_InvalidDimension ==
    (arg.width <= 0 \/ arg.height <= 0) =>
        /\ op = "create_board" => ret.exc = "InvalidDimension"
        /\ pc # "events"

-----------------------------------------------------------------------------
(* random_fill_board on any density *)

\* densities: below 0, 0, the default, 1, above 1
Densities == {0 - Scale \div 2, 0, DefaultDensity, Scale, Scale + Scale \div 2}

\* the values of random.random() tried: the least, a middle one, the greatest
SomeDraws == ExtremeDraws \cup {Scale \div 2}

FillGrids == {b \in Grids(MaxRows, MaxCols) : Rows(b) * Cols(b) <= MaxCells}

InitRandom ==
    /\ InitCtl
    /\ op = "none"
    /\ arg \in UNION {[board : {b}, density : Densities,
                       draws : [1..(Rows(b) * Cols(b)) -> SomeDraws]] : b \in FillGrids}
    /\ ret = <<>>

\* random_fill_board(board, density): it raises nothing
CallRandomFill ==
    /\ op = "none"
    /\ op' = "random_fill_board"
    /\ ret' = [exc |-> "none", board |-> random_fill_board(arg.board, arg.density, arg.draws)]
    /\ UNCHANGED <<arg, ctl>>

SpecRandom == InitRandom /\ [][CallRandomFill]_vars

\* C9: random_fill_board with a density outside [0, 1] fails with
\* InvalidDensity and leaves every cell of the grid as it was.
C9_InvalidDensity ==
    (op = "random_fill_board" /\ (arg.density < 0 \/ arg.density > Scale)) =>
        /\ ret.exc = "InvalidDensity"
        /\ ret.board = arg.board

\* C13: random_fill_board with density 0 leaves every cell dead and with
\* density 1 every cell alive, whatever the grid held and whatever the draws,
\* each in [0, 1), were.
C13_DensityBounds ==
    op = "random_fill_board" =>
        /\ ret.exc = "none"
        /\ SameShape(ret.board, arg.board)
        /\ arg.density = 0 => \A p \in CellsOf(arg.board) : Cell(ret.board, p[1], p[2]) = 0
        /\ arg.density = Scale => \A p \in CellsOf(arg.board) : Cell(ret.board, p[1], p[2]) = 1

\* a fill with density 0 of a grid that held a live cell, on draws among which
\* is the least, 0
C13_Witness ==
    /\ op = "random_fill_board"
    /\ arg.density = 0
    /\ LiveCells(arg.board) # {}
    /\ \E k \in DOMAIN arg.draws : arg.draws[k] = 0
    /\ \E k \in DOMAIN arg.draws : arg.draws[k] = Scale - 1
    /\ LiveCells(ret.board) = {}

-----------------------------------------------------------------------------
(* The controller's commands *)

Blank == create_board(BoardWidth, BoardHeight)

\* C5: with no patterns/glider.txt, load_pattern raises nothing and returns an
\* all-dead grid of the requested width and height, and the L command leaves
\* the controller in its loop with that grid, generation 0, paused.
C5_LoadMissingFile ==
    [][KeyLOn(NoFile) =>
          /\ load_pattern(NoFile, BoardWidth, BoardHeight).exc = "none"
          /\ SameShape(board', Blank)
          /\ LiveCells(board') = {}
          /\ generation' = 0
          /\ paused'
          /\ pc' = "events"
          /\ running' = running]_vars

\* the controller in its loop, running, past generation 0, with live cells:
\* L, finding no file, blanks the board, zeroes the counter and pauses
C5_Witness ==
    /\ pc = "events"
    /\ ~paused
    /\ generation > 0
    /\ LiveCells(board) # {}
    /\ ~load_pattern(NoFile, BoardWidth, BoardHeight).found
    /\ LiveCells(load_pattern(NoFile, BoardWidth, BoardHeight).board) = {}

\* C6: no save command changes a pattern file that an earlier save command of
\* the run wrote: every save writes a path of its own.
C6_NoOverwrite ==
    [][\A p \in DOMAIN files : p \in DOMAIN files' /\ files'[p] = files[p]]_vars

\* C7: a save command whose destination cannot be written leaves the
\* controller in its loop, with the board, the counter and the pause flag it had.
C7_SaveFailureNotFatal ==
    [][KeySOn(FALSE) => (pc' = "events" /\ UNCHANGED <<board, generation, paused>>)]_vars

\* C10: the N command, when the controller is paused, replaces the board by
\* its next generation and adds 1 to the counter; when the controller is
\* running it changes neither the board nor the counter nor the pause flag.
C10_StepOnce ==
    [][KeyN =>
          IF paused
          THEN /\ SameShape(board', board)
               /\ \A p \in CellsOf(board) : Cell(board', p[1], p[2]) = Conway(board, p)
               /\ generation' = generation + 1
               /\ paused' = paused
          ELSE UNCHANGED <<board, generation, paused>>]_vars

\* the controller in its loop, paused, past generation 0 and below the cap,
\* on a board whose next generation is another board with live cells: N acts
C10_Witness ==
    /\ pc = "events"
    /\ paused
    /\ generation > 0
    /\ generation < MaxGen
    /\ next_board_state(board) # board
    /\ LiveCells(next_board_state(board)) # {}

\* the cell a click below the HUD aims at: row and col as the handler computes them
TargetRow(mouse_y) == (mouse_y - HUD_HEIGHT) \div CELL_SIZE

TargetCol(mouse_x) == mouse_x \div CELL_SIZE

\* the clicks that are toggle-cell commands: left clicks below the HUD
ToggleClicks == {click \in Clicks : click[1] = 1 /\ click[3] > HUD_HEIGHT}

\* C11: a left click below the HUD whose target (row, col) lies within the board
\* flips that one cell, 0 to 1 and 1 to 0, and leaves every other cell and the
\* generation counter as they were; a click whose target lies outside the
\* board changes nothing of the controller.
C11_ToggleCell ==
    [][\A click \in ToggleClicks :
          MouseDown(click[1], click[2], click[3]) =>
              LET t == <<TargetRow(click[3]), TargetCol(click[2])>>
              IN IF t \in CellsOf(board)
                 THEN /\ SameShape(board', board)
                      /\ Cell(board', t[1], t[2]) = 1 - Cell(board, t[1], t[2])
                      /\ \A p \in CellsOf(board) \ {t} : Cell(board', p[1], p[2]) = Cell(board, p[1], p[2])
                      /\ generation' = generation
                      /\ pc' = pc /\ running' = running
                 ELSE UNCHANGED vars]_vars

\* the controller past generation 0, paused, on a board with one dead cell and
\* live cells around it: no step of the rule leaves such a board here, a
\* click made it, and the counter kept its value
C11_Witness ==
    /\ pc = "events"
    /\ paused
    /\ generation > 0
    /\ Cardinality(LiveCells(board)) = BoardWidth * BoardHeight - 1
    /\ \A b \in Grids(BoardHeight, BoardWidth) : SameShape(b, board) => next_board_state(b) # board

\* C14: in every state of the controller the board has board_height rows of
\* board_width entries each, every entry 0 or 1.
C14_BoardShape ==
    /\ Len(board) = BoardHeight
    /\ \A r \in 1..Len(board) :
           /\ Len(board[r]) = BoardWidth
           /\ \A c \in 1..Len(board[r]) : board[r][c] \in {0, 1}

\* the controller running past generation 0 on a board with live and dead
\* cells: commands and ticks have replaced the board it started with
C14_Witness ==
    /\ pc = "events"
    /\ ~paused
    /\ generation = MaxGen
    /\ LiveCells(board) # {}
    /\ LiveCells(board) # CellsOf(board)

\* board' is the next generation of board
Stepped == SameShape(board', board) /\ \A p \in CellsOf(board) : Cell(board', p[1], p[2]) = Conway(board, p)

\* C19: the generation counter starts at 0, is never negative, and counts the
\* applications of next_board_state to the board since the start or the last
\* clear, randomize or load: N while paused and the tick while running step
\* the board and add 1, N while running and the tick while paused change
\* neither; clear, randomize and load set the counter to 0 and the pause
\* flag; toggle-pause, toggle-cell, save and quit leave the counter alone.
C19_GenerationCounter ==
    /\ generation = 0
    /\ [](generation \in Nat)
    /\ [][/\ KeyN => IF paused
                     THEN generation' = generation + 1 /\ Stepped
                     ELSE UNCHANGED <<board, generation>>
          /\ EndFrame => IF ~paused
                         THEN generation' = generation + 1 /\ Stepped
                         ELSE UNCHANGED <<board, generation>>
          /\ (KeyC \/ KeyR \/ KeyL) => (generation' = 0 /\ paused')
          /\ (KeySpace \/ Mouse \/ KeyS \/ KeyQ \/ QuitEvent) => generation' = generation]_vars

\* the controller running at generation MaxGen with the file of a save made
\* at this generation on disk: after a randomize, ticks counted up to MaxGen
\* and the save left the counter alone
C19_Witness ==
    /\ pc = "events"
    /\ ~paused
    /\ generation = MaxGen
    /\ LiveCells(board) # {}
    /\ SavePath(generation, count_total_live_cells(board)) \in DOMAIN files

\* the rectangle (left, top, width, height) draw_grid fills for cell (r, c)
DrawRect(r, c, cell_size) ==
    [left |-> c * cell_size, top |-> r * cell_size + HUD_HEIGHT, width |-> cell_size, height |-> cell_size]

\* the pixels (x, y) of a filled rectangle
RectPixels(rect) ==
    (rect.left..(rect.left + rect.width - 1)) \X (rect.top..(rect.top + rect.height - 1))

\* C20: a left click on any pixel of the rectangle in which draw_grid draws
\* a cell of the board toggles that cell.
C20_ClickMatchesDraw ==
    pc = "events" =>
        \A p \in CellsOf(board) :
            \A px \in RectPixels(DrawRect(p[1], p[2], CELL_SIZE)) :
                ENABLED (/\ MouseDown(1, px[1], px[2])
                         /\ board' = SetCell(board, p[1], p[2], 1 - Cell(board, p[1], p[2])))

====
